---- MODULE Spec2Model ----
(***************************************************************************)
(* The bump allocator of sdk-templates/cpp/src/main.c: a static 64KB heap, *)
(* the cursor heap_ptr, and the exported alloc / dealloc / reset_heap.     *)
(*                                                                         *)
(* size_t arithmetic is unsigned and wraps.  The word is W bits wide here  *)
(* (2^W > sizeof(heap), 2^W a multiple of 8, as for the 32-bit size_t of   *)
(* wasm32) so that the wrapped values stay inside the model checker's      *)
(* integers.                                                               *)
(***************************************************************************)
EXTENDS Integers, Naturals, Sequences, FiniteSets, TLC

VARIABLES heap_ptr, live, last, first, pc, seen, ret, raced

vars == <<heap_ptr, live, last, first, pc, seen, ret, raced>>

\* Width of size_t in the model, in bits.
W == 20

\* Successful allocations recorded between two resets.
MaxLive == 3

\* sizeof(heap)
C == 65536

\* The alignment of `(size + 7) & ~7`.
ALIGN == 8

\* The value alloc returns when out of memory.
NULL == -1

Mod == 2 ^ W

\* The size_t values the host passes: small ones, ones around the capacity,
\* and ones close to SIZE_MAX.
Sizes == {0, 1, 8, 9, C - 8, C - 7, C, C + 1, Mod - 8, Mod - 7, Mod - 1}

\* (size + 7) & ~7 in size_t arithmetic.
Align8(size) == ((size + (ALIGN - 1)) % Mod) - (((size + (ALIGN - 1)) % Mod) % ALIGN)

\* heap_ptr + size > sizeof(heap), the sum in size_t arithmetic.
AllocFails(h, size) == ((h + size) % Mod) > C

\* What alloc returns, as an offset from heap (NULL when out of memory).
AllocPtr(h, size) == IF AllocFails(h, size) THEN NULL ELSE h

\* heap_ptr after alloc: advanced by the padded size unless the call failed.
AllocNextUnpadded(h, size) == IF AllocFails(h, size) THEN h ELSE (h + size) % Mod

AllocNextUnchecked(h, size) == (h + Align8(size)) % Mod

AllocNext(h, size) == IF AllocFails(h, size) THEN h ELSE (h + Align8(size)) % Mod

NoCall == [op |-> "none", size |-> 0, before |-> 0, ret |-> NULL, reset_from |-> NULL]

\* The concurrent callers of the last section; idle in the sequential program.
Procs == {1, 2}

SeqIdle ==
    /\ pc = [p \in Procs |-> "idle"]
    /\ UNCHANGED <<pc, seen, ret, raced>>

Init ==
    /\ heap_ptr = 0
    /\ live = <<>>
    /\ last = NoCall
    /\ first = <<>>
    /\ pc = [p \in Procs |-> "idle"]
    /\ seen = [p \in Procs |-> [h |-> 0, size |-> 0, add |-> 0]]
    /\ ret = [p \in Procs |-> NULL]
    /\ raced = FALSE

\* void* alloc(size_t size)
Alloc(size) ==
    /\ SeqIdle
    /\ AllocFails(heap_ptr, size) \/ Len(live) < MaxLive
    /\ heap_ptr' = AllocNext(heap_ptr, size)
    /\ live' = IF AllocFails(heap_ptr, size)
               THEN live
               ELSE Append(live, [off |-> heap_ptr, size |-> size])
    /\ last' = [op |-> "alloc", size |-> size, before |-> heap_ptr,
                ret |-> AllocPtr(heap_ptr, size), reset_from |-> IF last.op = "reset" THEN last.before ELSE NULL]
    /\ first' = IF first = <<>> THEN <<AllocPtr(heap_ptr, size)>> ELSE first

\* void dealloc(void* ptr, size_t size)
DeallocReclaims(ptr, size) ==
    /\ SeqIdle
    /\ heap_ptr' = IF Align8(size) <= heap_ptr THEN heap_ptr - Align8(size) ELSE 0
    /\ last' = [op |-> "dealloc", size |-> 0, before |-> heap_ptr,
                ret |-> NULL, reset_from |-> NULL]
    /\ UNCHANGED <<live, first>>

Dealloc(ptr, size) ==
    /\ SeqIdle
    /\ last' = [op |-> "dealloc", size |-> 0, before |-> heap_ptr,
                ret |-> NULL, reset_from |-> NULL]
    /\ UNCHANGED <<heap_ptr, live, first>>

\* void reset_heap(void)
ResetHeapKeeps ==
    /\ SeqIdle
    /\ last' = [op |-> "reset", size |-> 0, before |-> heap_ptr,
                ret |-> NULL, reset_from |-> NULL]
    /\ live' = <<>>
    /\ UNCHANGED <<heap_ptr, first>>

ResetHeap ==
    /\ SeqIdle
    /\ heap_ptr' = 0
    /\ live' = <<>>
    /\ last' = [op |-> "reset", size |-> 0, before |-> heap_ptr,
                ret |-> NULL, reset_from |-> NULL]
    /\ UNCHANGED first

\* The pointers a host hands to dealloc: NULL, a pointer alloc returned, the
\* cursor itself.
Pointers == {NULL, heap_ptr} \cup {live[i].off : i \in 1..Len(live)}

\* The sizes a host hands to dealloc.
FreedSizes == {0, 8, C}

Next ==
    \/ \E size \in Sizes : Alloc(size)
    \/ \E ptr \in Pointers, size \in FreedSizes : Dealloc(ptr, size)
    \/ ResetHeap

Spec == Init /\ [][Next]_vars

(***************************************************************************)
(* The claims about the sequential program, checked under Spec.            *)
(***************************************************************************)

\* The byte ranges [off, off + size) of two allocations share a byte.
Overlap(r1, r2) ==
    /\ r1.size > 0
    /\ r2.size > 0
    /\ r1.off < r2.off + r2.size
    /\ r2.off < r1.off + r1.size

\* size rounded up to the next multiple of 8, in the integers.
RoundUp8(size) == ((size + 7) \div 8) * 8

\* The allocate of the design: the padded size, in the integers, compared
\* with the capacity.
RefFails(c, size) == c + RoundUp8(size) > C

RefPtr(c, size) == IF RefFails(c, size) THEN NULL ELSE c

RefNext(c, size) == IF RefFails(c, size) THEN c ELSE c + RoundUp8(size)

\* C1: any two successful allocs with no reset_heap between them return
\* byte ranges that do not overlap; two with size > 0 never return the same
\* pointer.
C1_Disjoint ==
    \A i, j \in 1..Len(live) :
        i < j =>
            /\ ~Overlap(live[i], live[j])
            /\ (live[i].size > 0 /\ live[j].size > 0 => live[i].off # live[j].off)

\* C2: heap_ptr is a multiple of 8 in every reachable state, and so is the
\* offset of every pointer a successful alloc returned.
C2_Aligned ==
    /\ heap_ptr % ALIGN = 0
    /\ (last.op = "alloc" /\ last.ret # NULL => last.ret % ALIGN = 0)
    /\ \A i \in 1..Len(live) : live[i].off % ALIGN = 0

C2_Witness ==
    /\ last.op = "alloc"
    /\ last.ret = 8
    /\ last.size = 9
    /\ heap_ptr = 24
    /\ Len(live) = 2
    /\ live[1].size = 1

\* C3: the alloc whose padded size, added to the cursor, exceeds the capacity
\* returns NULL and leaves heap_ptr as it was before the call.
C3_CrossingFails ==
    (last.op = "alloc" /\ last.before + RoundUp8(last.size) > C)
        => (last.ret = NULL /\ heap_ptr = last.before)

\* C4: 0 <= heap_ptr <= sizeof(heap) in every reachable state, whatever
\* size values alloc was called with.
C4_CursorInRange == 0 <= heap_ptr /\ heap_ptr <= C

C4_Witness ==
    /\ last.op = "alloc"
    /\ last.size = Mod - 7
    /\ last.ret # NULL
    /\ last.before > 0
    /\ heap_ptr <= C

\* C5: after an alloc (successful or failed) or a dealloc, heap_ptr is not
\* below its value before the call.
C5_NeverDecreases ==
    last.op \in {"alloc", "dealloc"} => heap_ptr >= last.before

\* C6: the alloc(k) that follows reset_heap, for k <= sizeof(heap), succeeds
\* and returns offset 0, the pointer the first alloc of the run returned
\* when that one succeeded.
C6_AfterReset ==
    (last.op = "alloc" /\ last.reset_from # NULL /\ last.size <= C)
        => /\ last.ret = 0
           /\ (first # <<>> /\ first[1] # NULL => last.ret = first[1])

C6_Witness ==
    /\ last.op = "alloc"
    /\ last.reset_from = C
    /\ last.size = C
    /\ last.ret = 0
    /\ first = <<0>>

\* C7: dealloc leaves heap_ptr unchanged, and with it the result and the
\* effect of every later alloc.
C7_DeallocNoOp ==
    last.op = "dealloc" =>
        /\ heap_ptr = last.before
        /\ \A size \in Sizes :
            /\ AllocPtr(heap_ptr, size) = AllocPtr(last.before, size)
            /\ AllocNext(heap_ptr, size) = AllocNext(last.before, size)

C7_Witness ==
    /\ last.op = "dealloc"
    /\ Len(live) = 2
    /\ heap_ptr = 16

\* C8: the region [offset, offset + size) of every successful alloc lies
\* inside the arena: offset < C and offset + size <= C.
C8_InsideArena ==
    (last.op = "alloc" /\ last.ret # NULL)
        => (last.ret < C /\ last.ret + last.size <= C)

\* C9: alloc returns NULL exactly when the cursor plus the padded size
\* exceeds the capacity, and otherwise returns the cursor and advances it by
\* the padded size, as the allocate of the design does from the same cursor.
C9_MatchesReference ==
    last.op = "alloc" =>
        /\ (last.ret = NULL <=> RefFails(last.before, last.size))
        /\ last.ret = RefPtr(last.before, last.size)
        /\ heap_ptr = RefNext(last.before, last.size)

(***************************************************************************)
(* Two callers of alloc with no lock around it.  alloc is not atomic: it   *)
(* reads heap_ptr for the bounds check (line 35) and for the returned      *)
(* pointer (line 38), and reads and writes it in the += of line 40.  The   *)
(* accesses are plain, so the calls race: a later access of one call uses  *)
(* the value an earlier access of that call loaded, or a value loaded      *)
(* again.  Each caller makes one call.                                     *)
(***************************************************************************)

Other(p) == CHOOSE q \in Procs : q # p

\* Lines 35-37: `if (heap_ptr + size > sizeof(heap)) return NULL;`
AllocCheck(p, size) ==
    /\ pc[p] = "idle"
    /\ seen' = [seen EXCEPT ![p] = [h |-> heap_ptr, size |-> size, add |-> Align8(size)]]
    /\ ret' = [ret EXCEPT ![p] = NULL]
    /\ pc' = [pc EXCEPT ![p] = IF AllocFails(heap_ptr, size) THEN "done" ELSE "ptr"]
    /\ UNCHANGED <<heap_ptr, live, last, first, raced>>

\* Line 38 with a fetch-and-add that reserves the range in the same step.
AllocTakePtrReserves(p) ==
    /\ pc[p] = "ptr"
    /\ raced' = (raced \/ pc[Other(p)] = "advance")
    /\ ret' = [ret EXCEPT ![p] = heap_ptr]
    /\ heap_ptr' = (heap_ptr + seen[p].add) % Mod
    /\ seen' = [seen EXCEPT ![p].h = heap_ptr', ![p].add = 0]
    /\ pc' = [pc EXCEPT ![p] = "advance"]
    /\ UNCHANGED <<live, last, first>>

\* Line 38: `void* ptr = &heap[heap_ptr];`.  `raced` records that the other
\* caller has taken its pointer and not yet written heap_ptr.
AllocTakePtr(p) ==
    /\ pc[p] = "ptr"
    /\ raced' = (raced \/ pc[Other(p)] = "advance")
    /\ \E h \in {seen[p].h, heap_ptr} : ret' = [ret EXCEPT ![p] = h]
    /\ pc' = [pc EXCEPT ![p] = "advance"]
    /\ UNCHANGED <<heap_ptr, live, last, first, seen>>

\* Lines 40-41: `heap_ptr += (size + 7) & ~7; return ptr;`
AllocAdvance(p) ==
    /\ pc[p] = "advance"
    /\ \E h \in {seen[p].h, ret[p], heap_ptr} : heap_ptr' = (h + seen[p].add) % Mod
    /\ pc' = [pc EXCEPT ![p] = "done"]
    /\ UNCHANGED <<live, last, first, seen, ret, raced>>

NextConc ==
    \/ \E p \in Procs, size \in Sizes : AllocCheck(p, size)
    \/ \E p \in Procs : AllocTakePtr(p)
    \/ \E p \in Procs : AllocAdvance(p)

SpecConc == Init /\ [][NextConc]_vars

\* C10: without a lock the interleaving of two allocs decides disjointness:
\* when one caller reads heap_ptr for its pointer after the other has read it
\* and before the other has written it, and both calls succeed with
\* size > 0, both return the same start offset.
C10_RaceSameOffset ==
    (/\ raced
     /\ \A p \in Procs : pc[p] \in {"advance", "done"} /\ ret[p] # NULL /\ seen[p].size > 0)
        => ret[1] = ret[2]

C10_Witness ==
    /\ raced
    /\ \A p \in Procs : pc[p] = "done" /\ ret[p] # NULL /\ seen[p].size > 0
    /\ ret[1] = ret[2]
    /\ Overlap([off |-> ret[1], size |-> seen[1].size],
               [off |-> ret[2], size |-> seen[2].size])

====
